---- MODULE Spec2Model ----
(***************************************************************************)
(* Model of ChaserApp in snoopy_chase.py: a canvas sprite that eases       *)
(* toward the last pointer position, capped in speed and clamped to the    *)
(* canvas, and a cursor that is hidden while the pointer is over it.       *)
(*                                                                         *)
(* Coordinates.  The program computes in Python floats.  The model keeps   *)
(* every coordinate as an integer number of 1/Scale pixels and rounds each *)
(* product and quotient to the nearest such value, as a float operation    *)
(* rounds to the nearest float; only the grain differs.  Pointer and       *)
(* canvas sizes are whole pixels, as Tk delivers them.                     *)
(***************************************************************************)
EXTENDS Integers, Sequences, FiniteSets, TLC

\* ---------- Config (snoopy_chase.py lines 34-41) ----------
WINDOW_W == 900
WINDOW_H == 600
\* TARGET_EASING = 0.15 = EASING_NUM / EASING_DEN
EASING_NUM == 3
EASING_DEN == 20
MAX_SPEED == 18
FPS == 60
\* int(1000 / FPS): delay of the timer, milliseconds
TickDelay == 1000 \div FPS
CURSOR_NORMAL == "arrow"
POINTER_PADDING == 2

\* Tk reports a widget that has not been laid out yet as 1 x 1.
UNMAPPED == 1

\* ---------- Grain of the arithmetic ----------
\* Coordinates are counted in 1/Scale pixels; an even Scale keeps
\* sprite_w / 2 exact.
Grain == 1
Scale == 2 * Grain

\* Number of loop() runs explored in one behaviour.
MaxTicks == 3

\* ---------- Inputs ----------
\* Pixel sizes (w, h) of the scaled sprite image.
SpriteSizes == { <<100, 60>>, <<40, 40>> }
\* Canvas sizes a <Configure> event may report.
CanvasSizes == { <<60, 50>>, <<120, 120>>, <<900, 600>> }
\* Canvas size when the constructor reaches self.loop(): not laid out, or
\* laid out at the requested geometry (a modal dialog ran the event loop).
InitCanvasSizes == { <<UNMAPPED, UNMAPPED>>, <<WINDOW_W, WINDOW_H>> }
\* Pointer positions a <Motion> event may report (may lie off the canvas).
Targets == { <<0, 0>>, <<80, 40>>, <<122, 122>>, <<123, 100>>, <<-5, 700>> }

VARIABLES
    pos,            \* canvas.coords(self.sprite), in 1/Scale pixels
    target,         \* self.target, in pixels
    vel,            \* self.vel
    sprite_w,       \* self.sprite_w, pixels
    sprite_h,       \* self.sprite_h, pixels
    cw,             \* canvas.winfo_width(), pixels
    ch,             \* canvas.winfo_height(), pixels
    cursor,         \* the cursor configured on the canvas
    cursor_hidden,  \* self._cursor_hidden
    running,        \* self._running
    alive,          \* the root window (and with it the sprite item) exists
    pending,        \* number of loop callbacks scheduled with root.after
    started,        \* the constructor has made its call of self.loop()
    over,           \* result of pointer_over_sprite() in the latest loop()
    prev,           \* sprite position when the latest loop() or on_resize() started
    hprev,          \* self._cursor_hidden when the latest loop() started
    ticks,          \* number of loop() runs so far
    ev,             \* the handler that ran last, with its event arguments
    rec             \* the loop() runs an observer noted (at most one)

\* What the program holds
state == << pos, target, vel, sprite_w, sprite_h, cw, ch, cursor, cursor_hidden,
            running, alive, pending, started >>
\* What the model records about the run
hist == << over, prev, hprev, ticks, ev >>
vars == << state, hist, rec >>

\* ---------- Arithmetic helpers ----------
Min(a, b) == IF a <= b THEN a ELSE b
Max(a, b) == IF a >= b THEN a ELSE b
Abs(a) == IF a >= 0 THEN a ELSE -a

\* a / b rounded to the nearest integer (b > 0), halves away from zero.
RoundDiv(a, b) ==
    IF a >= 0 THEN (2 * a + b) \div (2 * b)
              ELSE -((2 * (-a) + b) \div (2 * b))

RECURSIVE SqrtSearch(_, _, _)
SqrtSearch(n, lo, hi) ==
    IF lo >= hi THEN lo
    ELSE LET mid == (lo + hi + 1) \div 2
         IN  IF mid * mid <= n THEN SqrtSearch(n, mid, hi)
                               ELSE SqrtSearch(n, lo, mid - 1)

\* floor(sqrt(n)) for 0 <= n < 2^30
ISqrt(n) == SqrtSearch(n, 0, 32767)

\* math.hypot(a, b), rounded to the nearest integer
Hypot(a, b) ==
    LET n == a * a + b * b
        r == ISqrt(n)
    IN  IF n - r * r > r THEN r + 1 ELSE r

\* ---------- Helpers of ChaserApp ----------
\* self.sprite_w / 2 and self.sprite_h / 2, in 1/Scale pixels
HalfW == (sprite_w * Scale) \div 2
HalfH == (sprite_h * Scale) \div 2

\* Variant: the upper bound is not guarded against size - half < half.
Clamp1_nopin(x, half, size) == Min(Max(x, half), size - half)

\* min(max(x, half), max(half, size - half))
Clamp1(x, half, size) == Min(Max(x, half), Max(half, size - half))

\* clamp_to_canvas(x, y) against a canvas of w x h pixels
clamp_to_canvas(x, y, w, h) ==
    << Clamp1(x, HalfW, w * Scale), Clamp1(y, HalfH, h * Scale) >>

\* self.canvas.find_withtag(self.sprite): the item is never deleted, so it
\* exists as long as the canvas does.
SpriteExists == alive

\* Variant: the expanded box is tested with strict bounds.
pointer_over_sprite_strict(s, t) ==
    IF ~SpriteExists THEN FALSE
    ELSE LET x0 == s[1] - HalfW - POINTER_PADDING * Scale
             y0 == s[2] - HalfH - POINTER_PADDING * Scale
             x1 == s[1] + HalfW + POINTER_PADDING * Scale
             y1 == s[2] + HalfH + POINTER_PADDING * Scale
             mx == t[1] * Scale
             my == t[2] * Scale
         IN  (x0 < mx /\ mx < x1) /\ (y0 < my /\ my < y1)

\* pointer_over_sprite() with the sprite centre at s and the pointer at t
pointer_over_sprite(s, t) ==
    IF ~SpriteExists THEN FALSE
    ELSE LET x0 == s[1] - HalfW - POINTER_PADDING * Scale
             y0 == s[2] - HalfH - POINTER_PADDING * Scale
             x1 == s[1] + HalfW + POINTER_PADDING * Scale
             y1 == s[2] + HalfH + POINTER_PADDING * Scale
             mx == t[1] * Scale
             my == t[2] * Scale
         IN  (x0 <= mx /\ mx <= x1) /\ (y0 <= my /\ my <= y1)

\* The velocity loop() adds to the position: the eased delta, scaled down to
\* MAX_SPEED when longer.  ux, uy are dx * 0.15 and dy * 0.15 before the
\* rounding, in 1/(Scale * EASING_DEN) pixels.
desired_v(p, t) ==
    LET dx == t[1] * Scale - p[1]
        dy == t[2] * Scale - p[2]
        ux == dx * EASING_NUM
        uy == dy * EASING_NUM
        cap == MAX_SPEED * Scale * EASING_DEN
    IN  IF ux * ux + uy * uy > cap * cap
        THEN LET speed == Hypot(ux, uy)
             IN  << RoundDiv(MAX_SPEED * Scale * ux, speed),
                    RoundDiv(MAX_SPEED * Scale * uy, speed) >>
        ELSE << RoundDiv(ux, EASING_DEN), RoundDiv(uy, EASING_DEN) >>

\* Variant: the velocity is computed but never added to the position.
loop_pos_still(p, t, w, h) == clamp_to_canvas(p[1], p[2], w, h)

\* Variant: the sprite holds still while the cursor is hidden, so the step
\* depends on self._cursor_hidden as well.
loop_pos_frozen(p, t, w, h) ==
    LET v == IF cursor_hidden THEN << 0, 0 >> ELSE desired_v(p, t)
    IN  clamp_to_canvas(p[1] + v[1], p[2] + v[2], w, h)

\* The position loop() commits (lines 201-215)
loop_pos(p, t, w, h) ==
    LET v == desired_v(p, t)
    IN  clamp_to_canvas(p[1] + v[1], p[2] + v[2], w, h)

\* Variant: loop() returns without scheduling itself again.
after_loop_none(n) == n

\* root.after(int(1000 / FPS), self.loop): one more callback is scheduled
after_loop(n) == n + 1

\* ---------- Initial state: the constructor, up to its call of loop() ----------
Centre == << (WINDOW_W \div 2) * Scale, (WINDOW_H \div 2) * Scale >>

Init ==
    /\ \E s \in SpriteSizes : sprite_w = s[1] /\ sprite_h = s[2]
    /\ \E c \in InitCanvasSizes : cw = c[1] /\ ch = c[2]
    /\ pos = Centre
    /\ target = << WINDOW_W \div 2, WINDOW_H \div 2 >>
    /\ vel = << 0, 0 >>
    /\ cursor = CURSOR_NORMAL
    /\ cursor_hidden = FALSE
    /\ running = TRUE
    /\ alive = TRUE
    /\ pending = 0
    /\ started = FALSE
    /\ over = FALSE
    /\ prev = Centre
    /\ hprev = FALSE
    /\ ticks = 0
    /\ ev = << "init" >>
    /\ rec = {}

\* ---------- loop() ----------
\* The body of loop() past its guard (lines 201-226), entered with `left`
\* callbacks still scheduled.
loop_body(left) ==
    LET np == loop_pos(pos, target, cw, ch)
        hit == pointer_over_sprite(np, target)
    IN  /\ pos' = np
        /\ IF hit
           THEN IF ~cursor_hidden
                THEN cursor' = "none" /\ cursor_hidden' = TRUE
                ELSE UNCHANGED << cursor, cursor_hidden >>
           ELSE IF cursor_hidden
                THEN cursor' = CURSOR_NORMAL /\ cursor_hidden' = FALSE
                ELSE UNCHANGED << cursor, cursor_hidden >>
        /\ pending' = after_loop(left)
        /\ UNCHANGED << target, vel, sprite_w, sprite_h, cw, ch, running, alive >>
        /\ over' = hit
        /\ prev' = pos
        /\ hprev' = cursor_hidden
        /\ ticks' = ticks + 1

\* loop()
loop(left) ==
    /\ IF ~running \/ ~SpriteExists
       THEN /\ pending' = left
            /\ UNCHANGED << pos, target, vel, sprite_w, sprite_h, cw, ch, cursor,
                            cursor_hidden, running, alive, over, prev, hprev, ticks >>
       ELSE loop_body(left)
    /\ ev' = << "loop" >>

\* The constructor's own call of self.loop() (line 141)
FirstLoop ==
    /\ ~started
    /\ started' = TRUE
    /\ loop(pending)
    /\ UNCHANGED rec

\* The timer expires and Tk runs the scheduled loop()
TimerLoop ==
    /\ started /\ alive
    /\ pending > 0
    /\ ticks < MaxTicks
    /\ loop(pending - 1)
    /\ UNCHANGED << started, rec >>

\* ---------- Event handlers ----------
\* Variant: the pointer position is clamped to the canvas before it is stored.
on_mouse_move_clamped(ex, ey) ==
    /\ target' = << Min(Max(ex, 0), cw), Min(Max(ey, 0), ch) >>
    /\ UNCHANGED << pos, vel, sprite_w, sprite_h, cw, ch, cursor, cursor_hidden,
                    running, alive, pending, started >>

\* on_mouse_move(event)
on_mouse_move(ex, ey) ==
    /\ target' = << ex, ey >>
    /\ UNCHANGED << pos, vel, sprite_w, sprite_h, cw, ch, cursor, cursor_hidden,
                    running, alive, pending, started >>

MouseMove ==
    /\ started /\ alive
    /\ \E t \in Targets :
         /\ on_mouse_move(t[1], t[2])
         /\ ev' = << "move", t[1], t[2] >>
    /\ UNCHANGED << over, prev, hprev, ticks, rec >>

\* Variant: the new size is taken but the sprite is left where it was.
on_resize_noclamp(w, h) ==
    /\ cw' = w /\ ch' = h
    /\ UNCHANGED << pos, target, vel, sprite_w, sprite_h, cursor, cursor_hidden,
                    running, alive, pending, started >>

\* on_resize(event): the canvas already has its new size (w, h) when Tk
\* delivers <Configure>; the handler reclamps the sprite.
on_resize(w, h) ==
    LET n == clamp_to_canvas(pos[1], pos[2], w, h)
    IN  /\ cw' = w /\ ch' = h
        /\ pos' = IF n # pos THEN n ELSE pos
        /\ UNCHANGED << target, vel, sprite_w, sprite_h, cursor, cursor_hidden,
                        running, alive, pending, started >>

Resize ==
    /\ started /\ alive
    /\ \E c \in CanvasSizes :
         /\ on_resize(c[1], c[2])
         /\ ev' = << "resize", c[1], c[2] >>
    /\ prev' = pos
    /\ UNCHANGED << over, hprev, ticks, rec >>

\* <Enter>: lambda e: self.canvas.config(cursor=CURSOR_NORMAL)
on_enter ==
    /\ cursor' = CURSOR_NORMAL
    /\ UNCHANGED << pos, target, vel, sprite_w, sprite_h, cw, ch, cursor_hidden,
                    running, alive, pending, started >>

\* <Leave>: lambda e: self.canvas.config(cursor="arrow")
on_leave ==
    /\ cursor' = "arrow"
    /\ UNCHANGED << pos, target, vel, sprite_w, sprite_h, cw, ch, cursor_hidden,
                    running, alive, pending, started >>

Enter ==
    /\ started /\ alive
    /\ on_enter
    /\ ev' = << "enter" >>
    /\ UNCHANGED << over, prev, hprev, ticks, rec >>

Leave ==
    /\ started /\ alive
    /\ on_leave
    /\ ev' = << "leave" >>
    /\ UNCHANGED << over, prev, hprev, ticks, rec >>

\* <Escape>: lambda e: self.root.destroy().  The main loop ends; callbacks
\* still scheduled never run.
Escape ==
    /\ started /\ alive
    /\ alive' = FALSE
    /\ ev' = << "escape" >>
    /\ UNCHANGED << pos, target, vel, sprite_w, sprite_h, cw, ch, cursor,
                    cursor_hidden, running, pending, started >>
    /\ UNCHANGED << over, prev, hprev, ticks, rec >>

Next ==
    \/ FirstLoop
    \/ TimerLoop
    \/ MouseMove
    \/ Resize
    \/ Enter
    \/ Leave
    \/ Escape

Spec == Init /\ [][Next]_vars

\* ---------- A second run to compare with ----------
\* What loop() read and what it committed, for the loop() that just ran.
LoopInput == << prev, target, cw, ch, sprite_w, sprite_h >>
Snapshot == [ input |-> LoopInput, output |-> pos, hidden |-> hprev, tick |-> ticks ]

\* An observer notes the loop() that just ran, once in a behaviour.  Any
\* later loop() can then be compared with it: the two stand for two runs of
\* the program with different histories.
Observe ==
    /\ ev[1] = "loop"
    /\ rec = {}
    /\ rec' = { Snapshot }
    /\ UNCHANGED << state, hist >>

NextObserved ==
    \/ FirstLoop
    \/ TimerLoop
    \/ MouseMove
    \/ Resize
    \/ Enter
    \/ Leave
    \/ Escape
    \/ Observe

SpecObserved == Init /\ [][NextObserved]_vars

\* ====================================================================
\* Properties
\* ====================================================================
\* The pointer in 1/Scale pixels
T == << target[1] * Scale, target[2] * Scale >>
JustLooped == ev[1] = "loop"
Dist2(a, b) == (a[1] - b[1]) * (a[1] - b[1]) + (a[2] - b[2]) * (a[2] - b[2])

\* x lies in [half, size - half], or at half when that range is empty
InRange1(x, half, size) ==
    IF size - half >= half THEN half <= x /\ x <= size - half ELSE x = half
InRange(p, w, h) ==
    /\ InRange1(p[1], HalfW, w * Scale)
    /\ InRange1(p[2], HalfH, h * Scale)

\* ---- C1 ----
\* C1: after every loop(), the sprite position lies componentwise within
\* [half_size, canvas_size - half_size], or at half_size in a dimension where
\* the canvas is smaller than the sprite.
C1_ClampedAfterTick == JustLooped => InRange(pos, cw, ch)

\* A second loop() has run against a canvas narrower than the sprite while the
\* pointer pulls outward, and the sprite is pinned at its half size.
C1_Witness ==
    /\ JustLooped /\ ticks >= 2
    /\ cw = 60 /\ ch = 50 /\ sprite_w = 100 /\ sprite_h = 60
    /\ target = << -5, 700 >>
    /\ pos = << HalfW, HalfH >>

\* ---- C2 ----
\* C2: in every loop(), the committed position is no further than MAX_SPEED
\* from the position the loop() started at (one grain of rounding allowed).
C2_SpeedCap ==
    JustLooped =>
        Dist2(pos, prev) <= (MAX_SPEED * Scale + 1) * (MAX_SPEED * Scale + 1)

\* ---- C3 ----
\* C3: right after every loop(), the canvas cursor is "none" exactly when the
\* overlap test of that loop() was true, and _cursor_hidden agrees with the
\* cursor configured on the canvas.
C3_CursorHiddenIffOverlap ==
    JustLooped =>
        /\ (cursor = "none") <=> over
        /\ cursor_hidden <=> (cursor = "none")

\* ---- C4 ----
\* x is x0 moved to the nearest point of the range of InRange1
Reclamped1(x0, x, half, size) ==
    IF size - half < half THEN x = half
    ELSE IF x0 < half THEN x = half
    ELSE IF x0 > size - half THEN x = size - half
    ELSE x = x0

\* C4: when on_resize returns, the canvas has the size of the event and the
\* sprite position is the old position reclamped against it: inside the new
\* bounds, moved no further than to the nearest bound, and unchanged when it
\* was inside already.  (10,10) with half size (50,30) and a canvas of (60,50)
\* clamps to (50,30).
C4_ResizeReclamps ==
    /\ ev[1] = "resize" =>
        /\ cw = ev[2] /\ ch = ev[3]
        /\ InRange(pos, cw, ch)
        /\ Reclamped1(prev[1], pos[1], HalfW, cw * Scale)
        /\ Reclamped1(prev[2], pos[2], HalfH, ch * Scale)
        /\ InRange(prev, cw, ch) => pos = prev
    /\ Clamp1(10 * Scale, 50 * Scale, 60 * Scale) = 50 * Scale
    /\ Clamp1(10 * Scale, 30 * Scale, 50 * Scale) = 30 * Scale

\* The canvas has just shrunk to (60,50) under a sprite of half size (50,30)
\* that stood elsewhere, and the sprite was moved to (50,30).
C4_Witness ==
    /\ ev[1] = "resize" /\ ev[2] = 60 /\ ev[3] = 50
    /\ sprite_w = 100 /\ sprite_h = 60
    /\ prev # pos
    /\ pos = << 50 * Scale, 30 * Scale >>

\* ---- C5 ----
\* dx * TARGET_EASING is no longer than MAX_SPEED: the cap does not apply
NotLimiting(p) ==
    EASING_NUM * EASING_NUM * Dist2(p, T)
        <= (MAX_SPEED * Scale * EASING_DEN) * (MAX_SPEED * Scale * EASING_DEN)
\* The eased step d * TARGET_EASING is at least half a grain: the
\* arithmetic can tell it from zero.
Resolvable(d) == 2 * EASING_NUM * Abs(d) >= EASING_DEN
Approaching(p) ==
    /\ NotLimiting(p)
    /\ Resolvable(T[1] - p[1]) \/ Resolvable(T[2] - p[2])
\* The pointer is a place the sprite centre may take
TargetInRange ==
    /\ cw * Scale >= 2 * HalfW /\ ch * Scale >= 2 * HalfH
    /\ InRange(T, cw, ch)

\* C5 as stated: whatever the target, a loop() that the speed cap does not
\* limit brings the sprite strictly nearer the target, unless it is there
\* already (to within the grain of the arithmetic).
C5_ConvergesAnyTarget ==
    (JustLooped /\ Approaching(prev)) => Dist2(pos, T) < Dist2(prev, T)

\* C5 amended: a loop() that the speed cap does not limit brings the sprite
\* strictly nearer the target when the target lies within the clamp range
\* [half_size, canvas_size - half_size] of the canvas.
C5_ConvergesTargetInRange ==
    (JustLooped /\ Approaching(prev) /\ TargetInRange)
        => Dist2(pos, T) < Dist2(prev, T)

\* A loop() has eased the sprite toward a target inside the clamp range and
\* it is still on its way.
C5_Witness ==
    /\ JustLooped /\ Approaching(prev) /\ TargetInRange
    /\ pos # T /\ pos # prev
    /\ Dist2(pos, T) < Dist2(prev, T)

\* ---- C6 ----
\* C6: a loop() that starts with the sprite at the target leaves the sprite
\* where it is, the first loop() from the initial window centre included.
C6_RestIdempotent == (JustLooped /\ prev = T) => pos = prev

\* ---- C7 ----
\* C7: on_mouse_move stores the event coordinates as the target unchanged and
\* touches nothing else: position, sizes, cursor, _cursor_hidden, velocity
\* and the timer are as before.
C7_MoveOnlySetsTarget ==
    [][ ev'[1] = "move" =>
          /\ target' = << ev'[2], ev'[3] >>
          /\ UNCHANGED << pos, vel, sprite_w, sprite_h, cw, ch, cursor,
                          cursor_hidden, running, alive, pending, started >>
      ]_vars

\* A pointer position off the canvas has just been stored as it came.
C7_Witness ==
    /\ ev[1] = "move" /\ ev[2] = -5 /\ ev[3] = 700
    /\ target = << -5, 700 >>
    /\ ticks >= 1 /\ ch < 700

\* ---- C8 ----
\* C8: the overlap result of a loop() is true exactly when the target is
\* within half_size + POINTER_PADDING of the committed sprite centre in both
\* dimensions, bounds included: with the centre at (100,100) and half size
\* (20,20), a target of (122,122) overlaps and one of (123,100) does not.
C8_OverlapAtNewCentre ==
    JustLooped =>
        /\ over <=> /\ Abs(T[1] - pos[1]) <= HalfW + POINTER_PADDING * Scale
                    /\ Abs(T[2] - pos[2]) <= HalfH + POINTER_PADDING * Scale
        /\ ( /\ pos = << 100 * Scale, 100 * Scale >>
             /\ sprite_w = 40 /\ sprite_h = 40 ) =>
                /\ target = << 122, 122 >> => over
                /\ target = << 123, 100 >> => ~over

\* A loop() has committed the centre (100,100) for a sprite of half size
\* (20,20) with the pointer on the corner (122,122) of the padded box.
C8_Witness ==
    /\ JustLooped
    /\ pos = << 100 * Scale, 100 * Scale >>
    /\ sprite_w = 40 /\ sprite_h = 40
    /\ target = << 122, 122 >>
    /\ over

C10_OnePendingTick ==
    /\ pending <= 1
    /\ ~started => pending = 0
    /\ (started /\ alive) => pending = 1
    /\ JustLooped => pending = 1

\* The third loop() has run after other events and one callback is scheduled.
C10_Witness ==
    /\ JustLooped /\ ticks >= 3 /\ alive
    /\ pending = 1
    /\ target # << WINDOW_W \div 2, WINDOW_H \div 2 >>
    /\ cw # WINDOW_W /\ cw # UNMAPPED
====
